---- MODULE Spec2Model ----
(***************************************************************************)
(* A model of ddtrace.tracer.Tracer (src/ddtrace/tracer.py): span creation *)
(* and linking, the thread-local current-span buffer, the shared list of   *)
(* finished spans with its lock, the hand-over to the writer, the          *)
(* configuration, the service registry and the wrap decorator.             *)
(*                                                                         *)
(* A Span object is an index into the sequence allSpans; 0 stands for None *)
(* where a span reference is expected.  An optional argument is <<>> when  *)
(* omitted (None) and <<v>> when given.  record() is three steps: taking   *)
(* the lock, the critical section, and the hand-over to the writer.  Span, *)
(* the samplers and AgentWriter live in other modules of the package and   *)
(* are modelled by their interface.                                        *)
(***************************************************************************)
EXTENDS Integers, Sequences, FiniteSets, TLC

\* ------------------------------------------------------------------ bounds
NumCtx == 2
MaxSpans == 3
MaxScenarioSpans == 4
MaxWriters == 3
MaxServiceCalls == 3
MaxWrapCalls == 1
MaxConfigSpans == 2

\* --------------------------------------------------------------- constants
DEFAULT_HOSTNAME == "localhost"
DEFAULT_PORT == 7777

Ctx == 1..NumCtx
None == <<>>
Some(v) == <<v>>
IsNone(a) == a = <<>>
Val(a) == a[1]

Hostnames == {"localhost", "agent", ""}
Ports == {DEFAULT_PORT, 8126, 0}
Samplers == {"AllSampler", "RateSampler"}
ServiceNames == {"web", "db"}
Apps == {"rails", "postgres"}
AppTypes == {"web", "db"}

VARIABLES
    allSpans,       \* every Span object created so far
    nextId,         \* the identifier generator of Span
    span_buffer,    \* Tracer.span_buffer: the current span of each context
    _spans,         \* Tracer._spans: the buffered finished spans
    _spans_lock,    \* Tracer._spans_lock: 0 when free, else the holder
    pc,             \* where each context is inside record()
    recSpan,        \* record()'s argument span, per context
    released,       \* record()'s local list spans, per context
    enabled,        \* Tracer.enabled
    writer,         \* Tracer.writer: an AgentWriter instance
    writers,        \* number of AgentWriter instances constructed
    sampler,        \* Tracer.sampler
    _services,      \* Tracer._services
    exports,        \* the calls received by AgentWriter.write
    sampleLog,      \* the spans handed to sampler.sample, in order
    recOrder,       \* the spans in the order their record() took the lock
    misuse,         \* some span was finished while not its caller's current span
    serviceCalls,   \* the set_service_info() calls so far
    wrapFrame,      \* the func_wrapper activation of each context
    wrapLog,        \* the completed func_wrapper calls
    observed        \* what current_span() last returned to each context

vars == <<allSpans, nextId, span_buffer, _spans, _spans_lock, pc, recSpan, released,
          enabled, writer, writers, sampler, _services, exports, sampleLog,
          recOrder, misuse, serviceCalls, wrapFrame, wrapLog, observed>>

traceVars == <<allSpans, nextId, span_buffer, sampleLog>>
recordVars == <<_spans, _spans_lock, pc, recSpan, released, exports, recOrder, misuse>>
configVars == <<enabled, writer, writers, sampler>>
serviceVars == <<_services, serviceCalls>>
wrapVars == <<wrapFrame, wrapLog>>
readVars == <<observed>>

\* ------------------------------------------------------------ Python values
\* a or b for an optional string a: None and "" are false.
OrStr(a, b) == IF ~IsNone(a) /\ Val(a) # "" THEN Val(a) ELSE b

\* a or b for an optional number a: None and 0 are false.
OrInt(a, b) == IF ~IsNone(a) /\ Val(a) # 0 THEN Val(a) ELSE b

\* a or b for two optional strings, the result optional as well.
OrOpt(a, b) == IF ~IsNone(a) /\ Val(a) # "" THEN a ELSE b

\* ------------------------------------------------------------------- Span
\* Span.__init__: a fresh span_id, the given trace_id or else a fresh one,
\* no parent object, and sampled defaulting to True.  trace_id and parent_id
\* are 0 when not given; resource and span_type are None when not given.
NewSpan(service, trace_id, parent_id) ==
    [ trace_id  |-> IF trace_id = 0 THEN nextId + 1 ELSE trace_id,
      span_id   |-> nextId,
      parent_id |-> parent_id,
      parent    |-> 0,
      service   |-> service,
      resource  |-> None,
      span_type |-> None,
      sampled   |-> TRUE,
      finished  |-> FALSE ]

\* The identifiers Span.__init__ draws.
IdsUsed(trace_id) == IF trace_id = 0 THEN 2 ELSE 1

\* sampler.sample(span): the values the sampler may give span.sampled.
SampleOutcomes(s) == IF s = "AllSampler" THEN {TRUE} ELSE BOOLEAN

\* ThreadLocalSpanBuffer.get() called in context c: the slot of c.
BufferGet(c) == span_buffer[c]

\* ThreadLocalSpanBuffer.set(span) called in context c: the buffer after it.
BufferSet(c, span) == [span_buffer EXCEPT ![c] = span]

\* AgentWriter(hostname, port): a new writer instance.
AgentWriter(hostname, port) == [ host |-> hostname, port |-> port, id |-> writers + 1 ]

\* ------------------------------------------------------------------- Init
\* Tracer.__init__
Init ==
    /\ allSpans = <<>>
    /\ nextId = 1
    /\ span_buffer = [c \in Ctx |-> 0]
    /\ _spans = <<>>
    /\ _spans_lock = 0
    /\ pc = [c \in Ctx |-> "idle"]
    /\ recSpan = [c \in Ctx |-> 0]
    /\ released = [c \in Ctx |-> <<>>]
    /\ enabled = TRUE
    /\ writer = [ host |-> DEFAULT_HOSTNAME, port |-> DEFAULT_PORT, id |-> 1 ]
    /\ writers = 1
    /\ sampler = "AllSampler"
    /\ _services = [n \in {} |-> None]
    /\ exports = <<>>
    /\ sampleLog = <<>>
    /\ recOrder = <<>>
    /\ misuse = FALSE
    /\ serviceCalls = <<>>
    /\ wrapFrame = [c \in Ctx |-> None]
    /\ wrapLog = <<>>
    /\ observed = [c \in Ctx |-> 0]

\* ------------------------------------------------------------------ trace
\* Context c is between Tracer calls and not unwinding a func_wrapper.
Idle(c) ==
    /\ pc[c] = "idle"
    /\ IF IsNone(wrapFrame[c]) THEN TRUE ELSE Val(wrapFrame[c]).phase = "func"

\* ChildSpan with the child given a trace of its own.
ChildSpanOwnTrace(parent, service) ==
    [ NewSpan(OrOpt(service, allSpans[parent].service), 0, allSpans[parent].span_id)
      EXCEPT !.parent = parent, !.sampled = allSpans[parent].sampled ]

\* ChildSpan without the copy of the parent's sampling decision.
ChildSpanNotInheriting(parent, service) ==
    [ NewSpan(OrOpt(service, allSpans[parent].service),
              allSpans[parent].trace_id, allSpans[parent].span_id)
      EXCEPT !.parent = parent ]

\* The span trace() builds when the buffer holds a current span.
ChildSpan(parent, service) ==
    [ NewSpan(OrOpt(service, allSpans[parent].service),
              allSpans[parent].trace_id, allSpans[parent].span_id)
      EXCEPT !.parent = parent, !.sampled = allSpans[parent].sampled ]

\* The span trace() builds when the buffer is empty; d is the sampler's decision.
RootSpan(service, d) ==
    [ NewSpan(service, 0, 0) EXCEPT !.sampled = d ]

\* The resource and span_type arguments of trace(), which it hands to Span()
\* as they are.
WithAttributes(span, resource, span_type) ==
    [ span EXCEPT !.resource = resource, !.span_type = span_type ]

\* DoTrace submitting every span to the sampler, not the root alone.
DoTraceSamplingEverySpan(c, service, resource, span_type) ==
    LET parent == BufferGet(c)
        idx == Len(allSpans) + 1
    IN  /\ \E d \in SampleOutcomes(sampler) :
              allSpans' = Append(allSpans,
                  WithAttributes([ (IF parent # 0 THEN ChildSpan(parent, service)
                                               ELSE RootSpan(service, d))
                                   EXCEPT !.sampled = d ], resource, span_type))
        /\ nextId' = nextId + IdsUsed(IF parent # 0 THEN allSpans[parent].trace_id ELSE 0)
        /\ sampleLog' = Append(sampleLog, idx)
        /\ span_buffer' = BufferSet(c, idx)

\* The body of Tracer.trace in context c.
DoTrace(c, service, resource, span_type) ==
    LET parent == BufferGet(c)
        idx == Len(allSpans) + 1
    IN  /\ IF parent # 0
           THEN /\ allSpans' = Append(allSpans,
                       WithAttributes(ChildSpan(parent, service), resource, span_type))
                /\ nextId' = nextId + IdsUsed(allSpans[parent].trace_id)
                /\ sampleLog' = sampleLog
           ELSE /\ \E d \in SampleOutcomes(sampler) :
                       allSpans' = Append(allSpans,
                           WithAttributes(RootSpan(service, d), resource, span_type))
                /\ nextId' = nextId + IdsUsed(0)
                /\ sampleLog' = Append(sampleLog, idx)
        /\ span_buffer' = BufferSet(c, idx)

\* Tracer.trace(name, service, resource, span_type) called in context c.
TraceCall(c, service, resource, span_type) ==
    /\ Idle(c)
    /\ DoTrace(c, service, resource, span_type)
    /\ UNCHANGED <<recordVars, configVars, readVars, serviceVars, wrapVars>>

\* Tracer.trace(name, service) called in context c.
Trace(c, service) == TraceCall(c, service, None, None)

\* Tracer.current_span called in context c.
CurrentSpan(c) ==
    /\ Idle(c)
    /\ observed' = [observed EXCEPT ![c] = BufferGet(c)]
    /\ UNCHANGED <<traceVars, recordVars, configVars, serviceVars, wrapVars>>

\* ClearCurrentSpan replacing the buffer object, which empties every slot.
ClearCurrentSpanEverywhere(c) ==
    /\ Idle(c)
    /\ span_buffer' = [d \in Ctx |-> 0]
    /\ UNCHANGED <<allSpans, nextId, sampleLog, recordVars, configVars, readVars,
                   serviceVars, wrapVars>>

\* ClearCurrentSpan emptying the list of finished spans as well.
ClearCurrentSpanDroppingSpans(c) ==
    /\ Idle(c)
    /\ span_buffer' = BufferSet(c, 0)
    /\ _spans' = <<>>
    /\ UNCHANGED <<allSpans, nextId, sampleLog, _spans_lock, pc, recSpan, released,
                   exports, recOrder, misuse, configVars, readVars, serviceVars,
                   wrapVars>>

\* Tracer.clear_current_span called in context c.
ClearCurrentSpan(c) ==
    /\ Idle(c)
    /\ span_buffer' = BufferSet(c, 0)
    /\ UNCHANGED <<allSpans, nextId, sampleLog, recordVars, configVars, readVars, serviceVars, wrapVars>>

\* ----------------------------------------------------------------- record
\* A span some func_wrapper activation opened and will finish on its way out.
HeldByWrapper(s) == \E c \in Ctx : ~IsNone(wrapFrame[c]) /\ Val(wrapFrame[c]).span = s

\* Tracer.record(span) up to the acquisition of the lock (line 148-149):
\* Span.finish calls it, once per span.
DoRecordEnter(c, s) ==
    /\ pc[c] = "idle"
    /\ s \in 1..Len(allSpans)
    /\ ~allSpans[s].finished
    /\ _spans_lock = 0
    /\ _spans_lock' = c
    /\ allSpans' = [allSpans EXCEPT ![s].finished = TRUE]
    /\ recSpan' = [recSpan EXCEPT ![c] = s]
    /\ released' = [released EXCEPT ![c] = <<>>]
    /\ pc' = [pc EXCEPT ![c] = "cs"]
    /\ misuse' = (misuse \/ span_buffer[c] # s)
    /\ UNCHANGED <<nextId, span_buffer, sampleLog, _spans, exports, recOrder,
                   configVars, readVars, serviceVars>>

\* Span.finish() called by application code in context c.
RecordEnter(c, s) ==
    /\ Idle(c)
    /\ ~HeldByWrapper(s)
    /\ DoRecordEnter(c, s)
    /\ UNCHANGED wrapVars

\* BufferAfter with the root's record() leaving the list in place.
BufferAfterKeeping(s) == Append(_spans, s)

\* What the critical section leaves in Tracer._spans (line 150, 153-155).
BufferAfter(s) == IF allSpans[s].parent = 0 THEN <<>> ELSE Append(_spans, s)

\* ReleasedBy with the span being recorded put in front of the list.
ReleasedByRootFirst(s) == IF allSpans[s].parent = 0 THEN <<s>> \o _spans ELSE <<>>

\* What the critical section leaves in the local list spans (line 148, 153-154).
ReleasedBy(s) == IF allSpans[s].parent = 0 THEN Append(_spans, s) ELSE <<>>

\* ParentOf with record() always emptying the caller's buffer.
ParentOfNone(s) == 0

\* ParentOf with record() leaving the recorded span in the caller's buffer.
ParentOfSelf(s) == s

\* The value the critical section stores in the caller's buffer (line 151-152).
ParentOf(s) == allSpans[s].parent

\* RecordBody with the lock still held when the with block is left.
RecordBodyKeepingLock(c) ==
    /\ pc[c] = "cs"
    /\ _spans_lock = c
    /\ _spans' = BufferAfter(recSpan[c])
    /\ released' = [released EXCEPT ![c] = ReleasedBy(recSpan[c])]
    /\ span_buffer' = BufferSet(c, ParentOf(recSpan[c]))
    /\ recOrder' = Append(recOrder, recSpan[c])
    /\ pc' = [pc EXCEPT ![c] = "write"]
    /\ UNCHANGED <<allSpans, nextId, sampleLog, recSpan, exports, misuse, _spans_lock,
                   configVars, readVars, serviceVars, wrapVars>>

\* The critical section of Tracer.record (line 149-155), leaving the lock.
RecordBody(c) ==
    /\ pc[c] = "cs"
    /\ _spans_lock = c
    /\ _spans' = BufferAfter(recSpan[c])
    /\ released' = [released EXCEPT ![c] = ReleasedBy(recSpan[c])]
    /\ span_buffer' = BufferSet(c, ParentOf(recSpan[c]))
    /\ recOrder' = Append(recOrder, recSpan[c])
    /\ _spans_lock' = 0
    /\ pc' = [pc EXCEPT ![c] = "write"]
    /\ UNCHANGED <<allSpans, nextId, sampleLog, recSpan, exports, misuse,
                   configVars, readVars, serviceVars, wrapVars>>

\* ReachesWriter without the test of Tracer.enabled.
ReachesWriterWhenDisabled(s, list) == allSpans[s].sampled /\ list # <<>>

\* ReachesWriter without the test for an empty list.
ReachesWriterEmptyList(s, list) == allSpans[s].sampled /\ enabled

\* Whether record() and write() reach writer.write (line 157, 161, 169);
\* a writer is always configured, and a writer object is true.
ReachesWriter(s, list) == allSpans[s].sampled /\ list # <<>> /\ enabled

\* The rest of Tracer.record after the lock (line 157-158) with Tracer.write
\* (line 160-171), up to the call of writer.write.
RecordWrite(c) ==
    /\ pc[c] = "write"
    /\ IF ReachesWriter(recSpan[c], released[c])
       THEN /\ exports' = Append(exports, [ spans |-> released[c],
                                            services |-> _services,
                                            writer |-> writer.id,
                                            by |-> c ])
            /\ pc' = [pc EXCEPT ![c] = "export"]
            /\ UNCHANGED <<recSpan, released>>
       ELSE /\ exports' = exports
            /\ pc' = [pc EXCEPT ![c] = "idle"]
            /\ recSpan' = [recSpan EXCEPT ![c] = 0]
            /\ released' = [released EXCEPT ![c] = <<>>]
    /\ UNCHANGED <<traceVars, _spans, _spans_lock, recOrder, misuse,
                   configVars, readVars, serviceVars, wrapVars>>

\* writer.write returns, and write() and record() with it.
WriterReturn(c) ==
    /\ pc[c] = "export"
    /\ pc' = [pc EXCEPT ![c] = "idle"]
    /\ recSpan' = [recSpan EXCEPT ![c] = 0]
    /\ released' = [released EXCEPT ![c] = <<>>]
    /\ UNCHANGED <<traceVars, _spans, _spans_lock, exports, recOrder, misuse,
                   configVars, readVars, serviceVars, wrapVars>>

\* -------------------------------------------------------------- configure
\* Tracer.configure(enabled, hostname, port, sampler), each argument optional.
Configure(en, hostname, port, sm) ==
    /\ enabled' = IF ~IsNone(en) THEN Val(en) ELSE enabled
    /\ IF ~IsNone(hostname) \/ ~IsNone(port)
       THEN /\ writers < MaxWriters
            /\ writer' = AgentWriter(OrStr(hostname, DEFAULT_HOSTNAME),
                                     OrInt(port, DEFAULT_PORT))
            /\ writers' = writers + 1
       ELSE UNCHANGED <<writer, writers>>
    /\ sampler' = IF ~IsNone(sm) THEN Val(sm) ELSE sampler
    /\ UNCHANGED <<traceVars, recordVars, serviceVars, wrapVars, readVars>>

\* ------------------------------------------------------- set_service_info
\* SetServiceInfo keeping the first registration of a service.
SetServiceInfoKeepFirst(service, app, app_type) ==
    /\ Len(serviceCalls) < MaxServiceCalls
    /\ _services' = [ n \in DOMAIN _services \cup {service} |->
                        IF n \in DOMAIN _services THEN _services[n]
                        ELSE [ app |-> app, app_type |-> app_type ] ]
    /\ serviceCalls' = Append(serviceCalls,
                              [ service |-> service, app |-> app, app_type |-> app_type ])
    /\ UNCHANGED <<traceVars, recordVars, configVars, readVars, wrapVars>>

\* Tracer.set_service_info(service, app, app_type)
SetServiceInfo(service, app, app_type) ==
    /\ Len(serviceCalls) < MaxServiceCalls
    /\ _services' = [ n \in DOMAIN _services \cup {service} |->
                        IF n = service THEN [ app |-> app, app_type |-> app_type ]
                        ELSE _services[n] ]
    /\ serviceCalls' = Append(serviceCalls,
                              [ service |-> service, app |-> app, app_type |-> app_type ])
    /\ UNCHANGED <<traceVars, recordVars, configVars, readVars, wrapVars>>

\* ------------------------------------------------------------------- wrap
NoValue == "None"
Arguments == {"x", "y"}
Outcomes == { [ kind |-> "return", value |-> NoValue ],
              [ kind |-> "return", value |-> "result" ],
              [ kind |-> "raise", value |-> "error" ] }

\* The arguments func receives from func_wrapper (line 73).
Forwarded(args) == args

\* Span.__exit__ finishes the span however the with block was left.
SpanExitFinishes(outcome) == TRUE

\* Span.__exit__ does not suppress the exception that left the with block.
SpanExitSuppresses(outcome) == FALSE

\* How func_wrapper ends, given how func ended (line 72-73): the with
\* statement lets an exception through, and the body returns nothing.
WrapperOutcome(outcome) ==
    IF outcome.kind = "raise" /\ ~SpanExitSuppresses(outcome)
    THEN outcome
    ELSE [ kind |-> "return", value |-> NoValue ]

\* The func_wrapper activations in progress.
ActiveWrappers == Cardinality({c \in Ctx : ~IsNone(wrapFrame[c])})

\* func_wrapper(args) called in context c: the with statement opens the span
\* (line 72) and func starts (line 73).
WrapCall(c, args, service) ==
    /\ Idle(c)
    /\ IsNone(wrapFrame[c])
    /\ Len(wrapLog) + ActiveWrappers < MaxWrapCalls
    /\ DoTrace(c, service, None, None)
    /\ wrapFrame' = [wrapFrame EXCEPT ![c] =
                        Some([ span |-> Len(allSpans) + 1,
                               args |-> args,
                               received |-> Forwarded(args),
                               before |-> span_buffer[c],
                               phase |-> "func",
                               outcome |-> None ])]
    /\ UNCHANGED <<recordVars, configVars, readVars, serviceVars, wrapLog>>

\* FuncEnd finishing the span only when func returns.
FuncEndNoFinally(c, outcome) ==
    /\ pc[c] = "idle"
    /\ ~IsNone(wrapFrame[c])
    /\ Val(wrapFrame[c]).phase = "func"
    /\ wrapFrame' = [wrapFrame EXCEPT ![c] =
                        Some([ Val(wrapFrame[c]) EXCEPT !.phase = "exit",
                                                        !.outcome = Some(outcome) ])]
    /\ IF outcome.kind = "return"
       THEN DoRecordEnter(c, Val(wrapFrame[c]).span)
       ELSE UNCHANGED <<traceVars, recordVars, configVars, readVars, serviceVars>>
    /\ wrapLog' = wrapLog

\* func returns or raises in context c, and the with statement is left:
\* Span.__exit__ finishes the span, which calls record().
FuncEnd(c, outcome) ==
    /\ pc[c] = "idle"
    /\ ~IsNone(wrapFrame[c])
    /\ Val(wrapFrame[c]).phase = "func"
    /\ wrapFrame' = [wrapFrame EXCEPT ![c] =
                        Some([ Val(wrapFrame[c]) EXCEPT !.phase = "exit",
                                                        !.outcome = Some(outcome) ])]
    /\ IF SpanExitFinishes(outcome)
       THEN DoRecordEnter(c, Val(wrapFrame[c]).span)
       ELSE UNCHANGED <<traceVars, recordVars, configVars, readVars, serviceVars>>
    /\ wrapLog' = wrapLog

\* func_wrapper returns to its caller, or the exception leaves it.
WrapReturn(c) ==
    /\ pc[c] = "idle"
    /\ ~IsNone(wrapFrame[c])
    /\ Val(wrapFrame[c]).phase = "exit"
    /\ LET f == Val(wrapFrame[c])
       IN  wrapLog' = Append(wrapLog,
                             [ ctx |-> c,
                               span |-> f.span,
                               args |-> f.args,
                               received |-> f.received,
                               func |-> Val(f.outcome),
                               wrapper |-> WrapperOutcome(Val(f.outcome)),
                               before |-> f.before,
                               after |-> span_buffer[c] ])
    /\ wrapFrame' = [wrapFrame EXCEPT ![c] = None]
    /\ UNCHANGED <<traceVars, recordVars, configVars, readVars, serviceVars>>

\* ---------------------------------------------------------- specifications
Opt(S) == {None} \cup {Some(v) : v \in S}

\* The context of the single-threaded scenarios.
MainCtx == CHOOSE c \in Ctx : \A d \in Ctx : c <= d

\* Tracer.trace called in context c while fewer than limit spans exist.
TraceUpTo(limit, c, service) ==
    /\ Len(allSpans) < limit
    /\ Trace(c, service)

\* Spans created and finished from every context, under the configuration
\* the constructor sets.
Next ==
    \/ \E c \in Ctx : TraceUpTo(MaxSpans, c, None)
    \/ \E c \in Ctx : ClearCurrentSpan(c)
    \/ \E c \in Ctx : \E s \in 1..Len(allSpans) : RecordEnter(c, s)
    \/ \E c \in Ctx : RecordBody(c)
    \/ \E c \in Ctx : RecordWrite(c)
    \/ \E c \in Ctx : WriterReturn(c)

Spec == Init /\ [][Next]_vars

\* The same with room for two traces of two spans each.
NextTwoTraces ==
    \/ \E c \in Ctx : TraceUpTo(MaxScenarioSpans, c, None)
    \/ \E c \in Ctx : \E s \in 1..Len(allSpans) : RecordEnter(c, s)
    \/ \E c \in Ctx : RecordBody(c)
    \/ \E c \in Ctx : RecordWrite(c)
    \/ \E c \in Ctx : WriterReturn(c)

SpecTwoTraces == Init /\ [][NextTwoTraces]_vars

\* Spans created and finished from every context while the sampler is
\* replaced.
NextSampling ==
    \/ \E c \in Ctx : TraceUpTo(MaxConfigSpans, c, None)
    \/ \E c \in Ctx : \E s \in 1..Len(allSpans) : RecordEnter(c, s)
    \/ \E c \in Ctx : RecordBody(c)
    \/ \E c \in Ctx : RecordWrite(c)
    \/ \E c \in Ctx : WriterReturn(c)
    \/ \E sm \in Opt(Samplers) : Configure(None, None, None, sm)

SpecSampling == Init /\ [][NextSampling]_vars

\* The same with room for two traces of two spans each.
NextSamplingTwoTraces ==
    \/ \E c \in Ctx : TraceUpTo(MaxScenarioSpans, c, None)
    \/ \E c \in Ctx : \E s \in 1..Len(allSpans) : RecordEnter(c, s)
    \/ \E c \in Ctx : RecordBody(c)
    \/ \E c \in Ctx : RecordWrite(c)
    \/ \E c \in Ctx : WriterReturn(c)
    \/ \E sm \in Opt(Samplers) : Configure(None, None, None, sm)

SpecSamplingTwoTraces == Init /\ [][NextSamplingTwoTraces]_vars

\* Spans created and finished from every context while the tracer is
\* switched off and on.
NextEnabled ==
    \/ \E c \in Ctx : TraceUpTo(MaxConfigSpans, c, None)
    \/ \E c \in Ctx : \E s \in 1..Len(allSpans) : RecordEnter(c, s)
    \/ \E c \in Ctx : RecordBody(c)
    \/ \E c \in Ctx : RecordWrite(c)
    \/ \E c \in Ctx : WriterReturn(c)
    \/ \E en \in Opt(BOOLEAN) : Configure(en, None, None, None)

SpecEnabled == Init /\ [][NextEnabled]_vars

\* Every configure() call, with traces completed in one context.
NextConfigure ==
    \/ \E en \in Opt(BOOLEAN) : \E h \in Opt(Hostnames) : \E p \in Opt(Ports) :
          \E sm \in Opt(Samplers) : Configure(en, h, p, sm)
    \/ TraceUpTo(MaxConfigSpans, MainCtx, None)
    \/ \E s \in 1..Len(allSpans) : RecordEnter(MainCtx, s)
    \/ RecordBody(MainCtx)
    \/ RecordWrite(MainCtx)
    \/ WriterReturn(MainCtx)

SpecConfigure == Init /\ [][NextConfigure]_vars

\* Services registered while traces complete in one context.
NextService ==
    \/ \E n \in ServiceNames : \E a \in Apps : \E t \in AppTypes : SetServiceInfo(n, a, t)
    \/ TraceUpTo(MaxConfigSpans, MainCtx, None)
    \/ \E s \in 1..Len(allSpans) : RecordEnter(MainCtx, s)
    \/ RecordBody(MainCtx)
    \/ RecordWrite(MainCtx)
    \/ WriterReturn(MainCtx)

SpecService == Init /\ [][NextService]_vars

\* func_wrapper called in context c while fewer than limit spans exist.
WrapCallUpTo(limit, c, args, service) ==
    /\ Len(allSpans) < limit
    /\ WrapCall(c, args, service)

\* Wrapped functions called from every context; the functions and their
\* callers open and finish spans of their own.
NextWrap ==
    \/ \E c \in Ctx : \E a \in Arguments : WrapCallUpTo(MaxConfigSpans, c, a, None)
    \/ \E c \in Ctx : \E o \in Outcomes : FuncEnd(c, o)
    \/ \E c \in Ctx : WrapReturn(c)
    \/ \E c \in Ctx : TraceUpTo(MaxConfigSpans, c, None)
    \/ \E c \in Ctx : \E s \in 1..Len(allSpans) : RecordEnter(c, s)
    \/ \E c \in Ctx : RecordBody(c)
    \/ \E c \in Ctx : RecordWrite(c)
    \/ \E c \in Ctx : WriterReturn(c)

SpecWrap == Init /\ [][NextWrap]_vars

\* The current span read, replaced and cleared from every context.
NextRegister ==
    \/ \E c \in Ctx : TraceUpTo(MaxConfigSpans, c, None)
    \/ \E c \in Ctx : CurrentSpan(c)
    \/ \E c \in Ctx : ClearCurrentSpan(c)
    \/ \E c \in Ctx : \E s \in 1..Len(allSpans) : RecordEnter(c, s)
    \/ \E c \in Ctx : RecordBody(c)
    \/ \E c \in Ctx : RecordWrite(c)
    \/ \E c \in Ctx : WriterReturn(c)

SpecRegister == Init /\ [][NextRegister]_vars

\* The service, resource and span_type of the trace() calls: each of them
\* given in one call and omitted in another.
TraceArguments ==
    { <<None, None, None>>,
      <<Some("web"), None, Some("http")>>,
      <<None, Some("/home"), None>> }

\* Spans created and finished in one context, no other context calling.
NextSingle ==
    \/ TraceUpTo(MaxScenarioSpans, MainCtx, None)
    \/ \E s \in 1..Len(allSpans) : RecordEnter(MainCtx, s)
    \/ RecordBody(MainCtx)
    \/ RecordWrite(MainCtx)
    \/ WriterReturn(MainCtx)

SpecSingle == Init /\ [][NextSingle]_vars

\* Spans created with and without a service, a resource and a span type.
NextAttributes ==
    \/ \E c \in Ctx : \E a \in TraceArguments :
          Len(allSpans) < MaxConfigSpans /\ TraceCall(c, a[1], a[2], a[3])
    \/ \E c \in Ctx : ClearCurrentSpan(c)
    \/ \E c \in Ctx : \E s \in 1..Len(allSpans) : RecordEnter(c, s)
    \/ \E c \in Ctx : RecordBody(c)
    \/ \E c \in Ctx : RecordWrite(c)
    \/ \E c \in Ctx : WriterReturn(c)

SpecAttributes == Init /\ [][NextAttributes]_vars

\* ------------------------------------------------------------------ claims
Elems(seq) == { seq[i] : i \in 1..Len(seq) }
Last(seq) == seq[Len(seq)]
SpanIds == 1..Len(allSpans)
ExportIds == 1..Len(exports)

\* The span with no parent that s descends from.
RECURSIVE RootOf(_)
RootOf(s) == IF allSpans[s].parent = 0 THEN s ELSE RootOf(allSpans[s].parent)

\* No context is inside record().
AllIdle == \A c \in Ctx : pc[c] = "idle"

\* C1: when every span is finished as its caller's current span, a span is
\* handed to the writer only in the list that its trace's root releases,
\* hence not before the record() of that root, in one list only, and the
\* span whose record() makes the call has no parent.
C1_ExactlyOnceAtRoot ==
    ~misuse =>
        /\ \A k \in ExportIds : \A s \in Elems(exports[k].spans) :
              /\ RootOf(s) \in Elems(recOrder)
              /\ RootOf(s) \in Elems(exports[k].spans)
        /\ \A k \in ExportIds : allSpans[Last(exports[k].spans)].parent = 0
        /\ \A k, l \in ExportIds :
              k # l => Elems(exports[k].spans) \cap Elems(exports[l].spans) = {}

\* The scenario of C2: two contexts each open a root and a child of it, and
\* the spans finish in the order A2, B2, B1, A1, each in its own context.
InterleavedTraces(a1, a2, b1, b2) ==
    /\ Len(allSpans) = 4
    /\ allSpans[a1].parent = 0
    /\ allSpans[b1].parent = 0
    /\ a1 # b1
    /\ allSpans[a2].parent = a1
    /\ allSpans[b2].parent = b1
    /\ recOrder = <<a2, b2, b1, a1>>
    /\ AllIdle
    /\ ~misuse

\* C2: after that scenario the writer was called twice, and each list it
\* was handed holds spans of one trace_id only.
C2_NoCrossContamination ==
    \A a1, a2, b1, b2 \in SpanIds :
        InterleavedTraces(a1, a2, b1, b2) =>
            /\ Len(exports) = 2
            /\ \A k \in ExportIds : \A s, t \in Elems(exports[k].spans) :
                  allSpans[s].trace_id = allSpans[t].trace_id

\* C3: when every span is finished as its caller's current span, no span of
\* a trace whose root the sampler left unsampled is in a list handed to the
\* writer, and no record() of such a span makes the call.
C3_UnsampledNeverExported ==
    ~misuse =>
        \A k \in ExportIds : \A s \in Elems(exports[k].spans) :
            allSpans[RootOf(s)].sampled

\* C4: while the tracer is disabled, the record() of a root empties the
\* buffer, and the rest of record() and write() make no call to the writer
\* and put nothing back into the buffer.
C4_DisabledDropsTrace ==
    [][\A c \in Ctx :
          /\ (pc[c] = "cs" /\ pc'[c] = "write" /\ ~enabled
                /\ allSpans[recSpan[c]].parent = 0)
             => (_spans' = <<>> /\ exports' = exports)
          /\ (pc[c] = "write" /\ pc'[c] # "write" /\ ~enabled)
             => (exports' = exports /\ _spans' = _spans /\ pc'[c] = "idle")]_vars

\* A sampled trace of two spans was completed, root last, with the tracer
\* disabled, and nothing reached the writer.
C4_Witness ==
    /\ ~enabled
    /\ ~misuse
    /\ AllIdle
    /\ exports = <<>>
    /\ _spans = <<>>
    /\ Len(recOrder) >= 2
    /\ allSpans[Last(recOrder)].parent = 0
    /\ allSpans[Last(recOrder)].sampled
    /\ allSpans[recOrder[1]].parent = Last(recOrder)

\* C5: a configure() call leaves unchanged each of enabled, the writer's
\* host, the writer's port and the sampler whose argument it omits, and
\* leaves the writer instance in place when it gives neither host nor port.
C5_PartialUpdate ==
    [][\A en \in Opt(BOOLEAN) : \A h \in Opt(Hostnames) : \A p \in Opt(Ports) :
       \A sm \in Opt(Samplers) :
          Configure(en, h, p, sm) =>
             /\ IsNone(en) => enabled' = enabled
             /\ IsNone(h) => writer'.host = writer.host
             /\ IsNone(p) => writer'.port = writer.port
             /\ IsNone(sm) => sampler' = sampler
             /\ (IsNone(h) /\ IsNone(p)) => writer' = writer]_vars

\* C6: every completed call of a wrapped function gave the function the
\* caller's arguments and gave the caller the value the function returned.
C6_WrapTransparent ==
    \A k \in 1..Len(wrapLog) :
        /\ wrapLog[k].received = wrapLog[k].args
        /\ wrapLog[k].func.kind = "return" => wrapLog[k].wrapper = wrapLog[k].func

\* C7: every completed call of a wrapped function, one that raised
\* included, has its span finished and recorded and leaves the caller's
\* current span as it was before the call; an error of the function is
\* the error the caller gets.
C7_WrapFinishesOnError ==
    \A k \in 1..Len(wrapLog) :
        /\ wrapLog[k].func.kind = "raise" => wrapLog[k].wrapper = wrapLog[k].func
        /\ allSpans[wrapLog[k].span].finished
        /\ wrapLog[k].span \in Elems(recOrder)
        /\ wrapLog[k].after = wrapLog[k].before

\* A wrapped function called under a current span raised.
C7_Witness ==
    \E k \in 1..Len(wrapLog) :
        /\ wrapLog[k].func.kind = "raise"
        /\ wrapLog[k].before # 0
        /\ wrapLog[k].after = wrapLog[k].before

\* C8: every span created under a current span has the trace_id of the
\* root it descends from.
C8_DescendantsShareTraceId ==
    \A s \in SpanIds :
        allSpans[s].parent # 0 => allSpans[s].trace_id = allSpans[RootOf(s)].trace_id

\* A span nested two levels under its root.
C8_Witness ==
    \E s \in SpanIds :
        /\ allSpans[s].parent # 0
        /\ allSpans[allSpans[s].parent].parent # 0
        /\ RootOf(s) # allSpans[s].parent

\* C9: every span created under a current span has that span's span_id as
\* parent_id and that span's sampled flag, and was not handed to the sampler.
C9_ChildInheritsParent ==
    \A s \in SpanIds :
        allSpans[s].parent # 0 =>
            /\ allSpans[s].parent_id = allSpans[allSpans[s].parent].span_id
            /\ allSpans[s].sampled = allSpans[allSpans[s].parent].sampled
            /\ s \notin Elems(sampleLog)

\* A span created under a current span that the sampler left unsampled.
C9_Witness ==
    \E s \in SpanIds :
        /\ allSpans[s].parent # 0
        /\ ~allSpans[allSpans[s].parent].sampled
        /\ ~allSpans[s].sampled

\* The registry the set_service_info() calls of log should leave: one entry
\* per service named, holding the app and app_type of the last call naming it.
Registry(log) ==
    [ n \in { log[i].service : i \in 1..Len(log) } |->
        LET j == CHOOSE j \in 1..Len(log) :
                     /\ log[j].service = n
                     /\ \A m \in (j+1)..Len(log) : log[m].service # n
        IN  [ app |-> log[j].app, app_type |-> log[j].app_type ] ]

\* C10: the registry handed to the writer at a flush holds, for each service
\* registered so far, one entry with the app and app_type of the last
\* set_service_info() call for that service.
C10_LastServiceInfoWins ==
    [][Len(exports') > Len(exports) =>
          Last(exports').services = Registry(serviceCalls)]_vars

\* A service was registered twice with different app and app_type, beside
\* another service, and the writer then received the second registration.
C10_Witness ==
    /\ exports # <<>>
    /\ \E i, j \in 1..Len(serviceCalls) :
          /\ i < j
          /\ serviceCalls[i].service = serviceCalls[j].service
          /\ serviceCalls[i].app # serviceCalls[j].app
          /\ serviceCalls[i].app_type # serviceCalls[j].app_type
          /\ serviceCalls[j].service \in DOMAIN Last(exports).services
          /\ Last(exports).services[serviceCalls[j].service].app = serviceCalls[j].app
          /\ Cardinality(DOMAIN Last(exports).services) = 2

\* A step of a Tracer call made in context a.
CallIn(a) ==
    \/ Trace(a, None)
    \/ CurrentSpan(a)
    \/ ClearCurrentSpan(a)
    \/ \E s \in SpanIds : RecordEnter(a, s)
    \/ RecordBody(a)
    \/ RecordWrite(a)
    \/ WriterReturn(a)

\* C11: a step of trace(), record(), current_span() or clear_current_span()
\* made in context a leaves the current-span slot of every other context, and
\* what current_span() returned there, as they were; the parent trace() gives
\* the new span and the span current_span() returns are the slot of a itself.
C11_RegisterIsolated ==
    [][\A a \in Ctx :
          /\ CallIn(a) =>
                \A b \in Ctx \ {a} :
                    span_buffer'[b] = span_buffer[b] /\ observed'[b] = observed[b]
          /\ Trace(a, None) => Last(allSpans').parent = span_buffer[a]
          /\ CurrentSpan(a) => observed'[a] = span_buffer[a]
      ]_vars

\* Two contexts hold different current spans and each has read its own.
C11_Witness ==
    \E a, b \in Ctx :
        /\ a # b
        /\ span_buffer[a] # 0 /\ span_buffer[b] # 0
        /\ span_buffer[a] # span_buffer[b]
        /\ observed[a] = span_buffer[a]
        /\ observed[b] = span_buffer[b]

\* The calls of sampler.sample() made for the trace of span s.
SampleCalls(s) ==
    { k \in 1..Len(sampleLog) :
          allSpans[sampleLog[k]].trace_id = allSpans[s].trace_id }

\* Every trace has had one sample() call, made on its root.
SampledOncePerTrace ==
    \A s \in SpanIds :
        /\ Cardinality(SampleCalls(s)) = 1
        /\ \A k \in SampleCalls(s) :
              sampleLog[k] = RootOf(s) /\ allSpans[sampleLog[k]].parent_id = 0

\* C12: trace() called in a context with no current span builds a root: its
\* trace_id is one no earlier span has, it has no parent_id and no parent, its
\* service, resource and span_type are the arguments of the call, and the
\* call submits it to the sampler; trace() called under a current span makes
\* no sample() call, so that every trace has had exactly one, on its root.
C12_RootSampledOnce ==
    [][/\ \A c \in Ctx : \A a \in TraceArguments :
              TraceCall(c, a[1], a[2], a[3]) =>
                  LET n == Last(allSpans')
                  IN  IF span_buffer[c] = 0
                      THEN /\ \A s \in SpanIds : allSpans[s].trace_id # n.trace_id
                           /\ n.parent_id = 0 /\ n.parent = 0
                           /\ n.service = a[1]
                           /\ n.resource = a[2]
                           /\ n.span_type = a[3]
                           /\ sampleLog' = Append(sampleLog, Len(allSpans'))
                      ELSE sampleLog' = sampleLog
       /\ SampledOncePerTrace'
      ]_vars

\* A root created with a service and a span type, the only span submitted to
\* the sampler, and a child created under it.
C12_Witness ==
    \E r, s \in SpanIds :
        /\ allSpans[r].parent = 0
        /\ allSpans[r].service = Some("web")
        /\ allSpans[r].resource = None
        /\ allSpans[r].span_type = Some("http")
        /\ allSpans[s].parent = r
        /\ sampleLog = <<r>>

\* C13: trace() called in context c leaves the span it created as the current
\* span of c, and the critical section of record(span) run in context c
\* leaves the parent of span as the current span of c, which is no span when
\* span has no parent.
C13_CurrentSpanFollowsCalls ==
    [][\A c \in Ctx :
          /\ Trace(c, None) =>
                Len(allSpans') = Len(allSpans) + 1 /\ span_buffer'[c] = Len(allSpans')
          /\ (pc[c] = "cs" /\ pc'[c] # "cs") =>
                span_buffer'[c] = allSpans[recSpan[c]].parent
      ]_vars

\* record() of a child has left its parent current, and record() of a root
\* has left another context with no current span.
C13_Witness ==
    \E c, d \in Ctx :
        /\ pc[c] = "write" /\ pc[d] = "write"
        /\ allSpans[recSpan[c]].parent # 0
        /\ span_buffer[c] = allSpans[recSpan[c]].parent
        /\ allSpans[recSpan[d]].parent = 0
        /\ span_buffer[d] = 0

\* The place of span s in the order the record() calls took the lock.
RecPos(s) == CHOOSE i \in 1..Len(recOrder) : recOrder[i] = s

\* list holds recorded spans in the order their record() calls took the lock.
InLockOrder(list) ==
    /\ \A i \in 1..Len(list) : list[i] \in Elems(recOrder)
    /\ \A i, j \in 1..Len(list) : i < j => RecPos(list[i]) < RecPos(list[j])

\* C14: every list handed to the writer, and every list a record() call has
\* taken out of the buffer, holds its spans in the order their record() calls
\* acquired the lock, and the span whose record() took the list out is its
\* last element.
C14_CompletionOrder ==
    /\ \A k \in ExportIds : InLockOrder(exports[k].spans)
    /\ \A c \in Ctx :
          (pc[c] \in {"write", "export"} /\ released[c] # <<>>) =>
              /\ InLockOrder(released[c])
              /\ Last(released[c]) = recSpan[c]
              /\ pc[c] = "export" => \E k \in ExportIds : exports[k].spans = released[c]

\* A context is inside the writer with a list of a child and its root, the
\* child, created second, recorded first.
C14_Witness ==
    \E c \in Ctx :
        /\ pc[c] = "export"
        /\ Len(released[c]) = 2
        /\ released[c][1] > released[c][2]
        /\ allSpans[released[c][1]].parent = released[c][2]

\* C15: a context that has reached write(), or is inside writer.write, does
\* not hold the lock of the buffer: the lock is held only inside the
\* critical section of record().  While a context is inside writer.write,
\* every other context can take its next step of trace() and record(): it
\* can create a span, enter record() when no critical section is running,
\* and leave the critical section it is in.
C15_WriterCalledOutsideLock ==
    /\ \A c \in Ctx : pc[c] \in {"write", "export"} => _spans_lock # c
    /\ _spans_lock # 0 => pc[_spans_lock] = "cs"
    /\ \A c, d \in Ctx :
          (pc[c] = "export" /\ d # c) =>
              /\ (pc[d] = "idle" /\ Len(allSpans) < MaxSpans) =>
                    ENABLED TraceUpTo(MaxSpans, d, None)
              /\ \A s \in SpanIds :
                    (pc[d] = "idle" /\ ~allSpans[s].finished /\ _spans_lock = 0) =>
                        ENABLED RecordEnter(d, s)
              /\ pc[d] = "cs" => ENABLED RecordBody(d)
              /\ pc[d] = "write" => ENABLED RecordWrite(d)

\* While one context is inside writer.write, another holds the lock in the
\* critical section of record().
C15_Witness ==
    \E c, d \in Ctx :
        /\ pc[c] = "export"
        /\ pc[d] = "cs"
        /\ _spans_lock = d

\* C16: no list handed to the writer is empty, and the step of record() that
\* follows the critical section hands nothing to the writer when the span
\* recorded has a parent, its local list being empty.
C16_NoEmptyExport ==
    [][/\ \A k \in 1..Len(exports') : exports'[k].spans # <<>>
       /\ \A c \in Ctx :
             (pc[c] = "write" /\ pc'[c] # "write" /\ allSpans[recSpan[c]].parent # 0) =>
                 /\ released[c] = <<>>
                 /\ exports' = exports
                 /\ pc'[c] = "idle"
      ]_vars

\* A sampled child has been recorded with the tracer enabled, its record()
\* has returned, and the writer has not been called.
C16_Witness ==
    \E s \in SpanIds :
        /\ allSpans[s].parent # 0
        /\ allSpans[s].sampled
        /\ s \in Elems(recOrder)
        /\ AllIdle
        /\ enabled
        /\ exports = <<>>

\* C17: clear_current_span() called in context c empties the slot of c and
\* changes nothing else: not the slot of another context, the buffer of
\* finished spans, the service registry, the configuration or the lists
\* handed to the writer.  trace() called in c while its slot is empty, as
\* clear_current_span() left it, creates a span with no parent and a trace_id
\* no earlier span has, and submits it to the sampler, whatever spans are
\* unfinished.
C17_ClearStartsNewTrace ==
    [][\A c \in Ctx :
          /\ ClearCurrentSpan(c) =>
                /\ span_buffer'[c] = 0
                /\ \A d \in Ctx \ {c} : span_buffer'[d] = span_buffer[d]
                /\ _spans' = _spans
                /\ _services' = _services
                /\ <<enabled, writer, writers, sampler>>' = <<enabled, writer, writers, sampler>>
                /\ exports' = exports
                /\ allSpans' = allSpans /\ sampleLog' = sampleLog
          /\ (Trace(c, None) /\ span_buffer[c] = 0) =>
                LET n == Last(allSpans')
                IN  /\ n.parent = 0 /\ n.parent_id = 0
                    /\ \A s \in SpanIds : allSpans[s].trace_id # n.trace_id
                    /\ sampleLog' = Append(sampleLog, Len(allSpans'))
                    /\ span_buffer'[c] = Len(allSpans')
      ]_vars

\* More unfinished roots than contexts, nothing recorded: some context has
\* cleared its slot and created a root while its earlier span was unfinished.
C17_Witness ==
    /\ Len(allSpans) > NumCtx
    /\ \A s \in SpanIds : allSpans[s].parent = 0 /\ ~allSpans[s].finished
    /\ Len(sampleLog) = Len(allSpans)
    /\ recOrder = <<>>
    /\ AllIdle

\* C18: with the tracer enabled and every span finished as its caller's
\* current span, once every record() call has returned, each recorded span
\* whose root is sampled and recorded is in a list that was handed to the
\* writer.
C18_SampledTraceExported ==
    (~misuse /\ enabled /\ AllIdle) =>
        \A s \in Elems(recOrder) :
            (allSpans[RootOf(s)].sampled /\ RootOf(s) \in Elems(recOrder)) =>
                \E k \in ExportIds : s \in Elems(exports[k].spans)

\* How many times span s occurs in list.
Occurrences(s, list) == Cardinality({ i \in 1..Len(list) : list[i] = s })

RECURSIVE SumOver(_, _, _)
\* How many times span s occurs in the first n lists of lists.
SumOver(s, lists, n) ==
    IF n = 0 THEN 0 ELSE Occurrences(s, lists[n]) + SumOver(s, lists, n - 1)

\* The released lists: those handed to the writer, and those taken out of the
\* buffer by a record() call that has not yet reached the writer.
ReleasedLists ==
    [ k \in ExportIds |-> exports[k].spans ] \o
    [ c \in Ctx |-> IF pc[c] = "write" THEN released[c] ELSE <<>> ]

\* C19: with the tracer enabled and every trace sampled, every span whose
\* record() has been through its critical section occurs exactly once in the
\* buffer and the released lists taken together, and a span not yet recorded
\* occurs in none, in every interleaving of record() calls.
C19_Conservation ==
    \A s \in SpanIds :
        Occurrences(s, _spans) + SumOver(s, ReleasedLists, Len(ReleasedLists))
            = IF s \in Elems(recOrder) THEN 1 ELSE 0

\* A root's record() has taken its list out and not yet reached the writer
\* while the record() of another span has already appended to the buffer.
C19_Witness ==
    \E c \in Ctx :
        /\ pc[c] = "write"
        /\ released[c] # <<>>
        /\ _spans # <<>>
        /\ exports # <<>>

\* Every record() call has returned, every span created so far is finished,
\* and each was finished as the current span of its caller.
EndedWellNested ==
    /\ ~misuse
    /\ AllIdle
    /\ recOrder # <<>>
    /\ \A s \in SpanIds : allSpans[s].finished

\* C20: in a run of one context where every span was finished as the current
\* span, hence after every span created under it, when all spans created so
\* far are finished the last one recorded has no parent, the context has no
\* current span and the buffer is empty; the trace() that follows creates a
\* span with no parent and submits it to the sampler.
C20_CleanAfterRoot ==
    [][  /\ (EndedWellNested =>
               /\ allSpans[Last(recOrder)].parent = 0
               /\ span_buffer[MainCtx] = 0
               /\ _spans = <<>>)'
         /\ (EndedWellNested /\ Trace(MainCtx, None)) =>
               /\ Last(allSpans').parent = 0
               /\ Last(sampleLog') = Len(allSpans')
      ]_vars

\* A root, its child and its grandchild finished innermost first, and a
\* second root created after them.
C20_Witness ==
    /\ ~misuse
    /\ recOrder = <<3, 2, 1>>
    /\ Len(allSpans) = 4
    /\ allSpans[3].parent = 2 /\ allSpans[2].parent = 1
    /\ allSpans[4].parent = 0
    /\ span_buffer[MainCtx] = 4

====
